---- MODULE Spec2Model ----
(***************************************************************************)
(* Model of ccsim/neighborhood.py: the PairwiseNeighborhood interaction    *)
(* graph (adjacency dict of sets, node metadata dict, interaction metadata *)
(* dict keyed by ordered pairs) and the linear, rectangular (von Neumann)  *)
(* and hexagonal topology generators.                                      *)
(*                                                                         *)
(* Python dicts are functions whose DOMAIN is the key set; Python sets are *)
(* sets.  Dict objects live in three heaps indexed by object id, because   *)
(* the constructor's default arguments are single dict objects shared by   *)
(* every instance built without that argument.  An operation works on the  *)
(* record [n, nm, im, err, i] of the three dicts an instance refers to,    *)
(* the exception raised so far and (generators only) the local counter i;  *)
(* once err is set, the remaining statements are skipped, exactly as an    *)
(* uncaught exception leaves the dicts as mutated so far.                  *)
(***************************************************************************)
EXTENDS Integers, FiniteSets, Sequences, TLC

\* ---------------------------------------------------------------- bounds
\* node ids the driver passes to graph operations: 0 .. MaxNode
MaxNode == 1
\* graph operations the driver performs after the constructions
MaxCalls == 3
\* generator dimensions explored by SpecGen
MaxRows == 6
MaxCols == 4

Nodes == 0 .. MaxNode
\* opaque metadata values; None is the Python default of the meta parameters
None == "None"
Metas == {"m1", "m2"}
MetaArgs == Metas \cup {None}

\* ids of dict objects: 0 is the default-argument object, g the object
\* allocated by the generator call that builds instance g
DefaultObj == 0
Graphs == {1, 2}

VARIABLES
    neighborhood,          \* heap: object id -> dict node -> set of nodes
    node_metadata,         \* heap: object id -> dict node -> metadata
    interaction_metadata,  \* heap: object id -> dict <<a, b>> -> metadata
    self,                  \* instance -> [neighborhood, node_metadata, interaction_metadata: object ids]
    last,                  \* the last call: [op, g, a, b, bd, err]
    onlyAdds,              \* no remove_* call was made before the last call
    calls                  \* graph operations performed so far

vars == <<neighborhood, node_metadata, interaction_metadata, self, last, onlyAdds, calls>>

\* ------------------------------------------------------- dicts and sets
EmptyDict == [x \in {} |-> {}]

\* d[k] = v
Put(d, k, v) == [x \in (DOMAIN d) \cup {k} |-> IF x = k THEN v ELSE d[x]]

\* del d[k]
Del(d, k) == [x \in (DOMAIN d) \ {k} |-> d[x]]

\* a Python truth test of a metadata argument
Truthy(meta) == meta # None

NoErr == "none"

Raise(s, e) == IF s.err # NoErr THEN s ELSE [s EXCEPT !.err = e]

\* neighborhood[k].add(v): KeyError when k is no key
SetAdd(s, k, v) ==
    IF s.err # NoErr THEN s
    ELSE IF k \notin DOMAIN s.n THEN Raise(s, "KeyError")
    ELSE [s EXCEPT !.n = [@ EXCEPT ![k] = @ \cup {v}]]

\* neighborhood[k] = S
SetNew(s, k, S) ==
    IF s.err # NoErr THEN s ELSE [s EXCEPT !.n = Put(@, k, S)]

\* neighborhood[k].remove(v): KeyError when k is no key or v no member
SetRemove(s, k, v) ==
    IF s.err # NoErr THEN s
    ELSE IF k \notin DOMAIN s.n THEN Raise(s, "KeyError")
    ELSE IF v \notin s.n[k] THEN Raise(s, "KeyError")
    ELSE [s EXCEPT !.n = [@ EXCEPT ![k] = @ \ {v}]]

\* i += 1
Inc(s) == IF s.err # NoErr THEN s ELSE [s EXCEPT !.i = @ + 1]

\* a fresh local state of a generator: neighborhood = dict()
Local == [n |-> EmptyDict, nm |-> EmptyDict, im |-> EmptyDict, err |-> NoErr, i |-> 0]

\* ------------------------------------------ PairwiseNeighborhood methods
\* Each takes the record s of the dicts the instance refers to and returns
\* it as the call leaves it, with err set when the call raised.

add_node(s, nid, meta) ==
    IF nid \in DOMAIN s.n THEN Raise(s, "Exception")
    ELSE LET s1 == SetNew(s, nid, {})
         IN  IF Truthy(meta) THEN [s1 EXCEPT !.nm = Put(@, nid, meta)] ELSE s1

add_node_metadata(s, nid, meta) ==
    IF nid \notin DOMAIN s.n THEN Raise(s, "Exception")
    ELSE [s EXCEPT !.nm = Put(@, nid, meta)]

add_interaction(s, nid1, nid2, meta) ==
    LET s1 == IF nid1 \notin DOMAIN s.n THEN add_node(s, nid1, None) ELSE s
        s2 == IF nid2 \notin DOMAIN s1.n THEN add_node(s1, nid2, None) ELSE s1
        s3 == SetAdd(s2, nid1, nid2)
        s4 == SetAdd(s3, nid2, nid1)
    IN  IF s4.err = NoErr /\ Truthy(meta)
        THEN [s4 EXCEPT !.im = Put(Put(@, <<nid1, nid2>>, meta), <<nid2, nid1>>, meta)]
        ELSE s4

\* a variant of add_interaction_metadata that stores the forward key only
add_interaction_metadata_one_way(s, nid1, nid2, meta) ==
    IF nid1 \notin DOMAIN s.n THEN Raise(s, "KeyError")
    ELSE IF nid2 \notin DOMAIN s.n THEN Raise(s, "KeyError")
    ELSE [s EXCEPT !.im = Put(@, <<nid1, nid2>>, meta)]

add_interaction_metadata(s, nid1, nid2, meta) ==
    IF nid1 \notin DOMAIN s.n THEN Raise(s, "KeyError")
    ELSE IF nid2 \notin DOMAIN s.n THEN Raise(s, "KeyError")
    ELSE [s EXCEPT !.im = Put(Put(@, <<nid1, nid2>>, meta), <<nid2, nid1>>, meta)]

remove_interaction(s, nid1, nid2) ==
    IF nid1 \notin DOMAIN s.n THEN Raise(s, "KeyError")
    ELSE IF nid2 \notin DOMAIN s.n THEN Raise(s, "KeyError")
    ELSE LET s1 == SetRemove(s, nid1, nid2)
             s2 == SetRemove(s1, nid2, nid1)
         IN  IF s2.err # NoErr THEN s2
             ELSE [s2 EXCEPT !.im = Del(Del(@, <<nid1, nid2>>), <<nid2, nid1>>)]

\* The order in which a for loop visits a set of node ids.  CPython keeps a
\* set in a hash table scanned by slot; a small non-negative int hashes to
\* itself, so the ids of this model are visited in ascending order.
IterFirst(S) == CHOOSE x \in S : \A y \in S : x <= y

\* The loop of remove_node over self.neighborhood[nid], todo being the
\* members not yet visited.  Removing nid from its own set (other_nid = nid)
\* changes the size of the set being iterated, and the iterator then raises
\* RuntimeError when asked for the next member, even when none is left.
RECURSIVE remove_node_loop(_, _, _)
remove_node_loop(s, nid, todo) ==
    IF s.err # NoErr \/ todo = {} THEN s
    ELSE LET other_nid == IterFirst(todo)
             s1 == SetRemove(s, other_nid, nid)
             s2 == IF s1.err # NoErr THEN s1
                   ELSE [s1 EXCEPT !.im = Del(Del(@, <<nid, other_nid>>), <<other_nid, nid>>)]
             s3 == IF s2.err = NoErr /\ other_nid = nid
                   THEN Raise(s2, "RuntimeError") ELSE s2
         IN  remove_node_loop(s3, nid, todo \ {other_nid})

remove_node(s, nid) ==
    IF nid \notin DOMAIN s.n THEN Raise(s, "KeyError")
    ELSE LET s1 == remove_node_loop(s, nid, s.n[nid])
         IN  IF s1.err # NoErr THEN s1
             ELSE [s1 EXCEPT !.nm = Del(@, nid), !.n = Del(@, nid)]

\* queries
get_neighbors(s, nid) == IF nid \in DOMAIN s.n THEN s.n[nid] ELSE {}

get_node_metadata(s, nid) == IF nid \in DOMAIN s.nm THEN s.nm[nid] ELSE None

get_interaction_metadata(s, nid1, nid2) ==
    IF <<nid1, nid2>> \in DOMAIN s.im THEN s.im[<<nid1, nid2>>] ELSE None

\* ------------------------------------------------------------ generators
\* Each returns the local record when the function returns: n is the dict
\* handed to PairwiseNeighborhood(neighborhood), err the exception raised.

\* range(lo, hi) as a count of iterations
RangeLen(lo, hi) == IF hi > lo THEN hi - lo ELSE 0

\* one pass of "neighborhood[i].add(i+1); neighborhood[i+1] = set([i]); i += 1"
RightStep(s) == Inc(SetNew(SetAdd(s, s.i, s.i + 1), s.i + 1, {s.i}))

\* for _ in range(k): the first-row loop shared by the 2D generators
RECURSIVE first_row_loop(_, _)
first_row_loop(s, k) ==
    IF s.err # NoErr \/ k <= 0 THEN s ELSE first_row_loop(RightStep(s), k - 1)

\* for nid in range(Np-1): nid runs from the given value
RECURSIVE linear_loop(_, _, _)
linear_loop(s, nid, Np) ==
    IF s.err # NoErr \/ nid >= Np - 1 THEN s
    ELSE linear_loop(SetNew(SetAdd(s, nid, nid + 1), nid + 1, {nid}), nid + 1, Np)

\* a variant of the linear generator without the "if Np == 1" special case
linear_without_single_node_case(Np, boundary_adjustment) ==
    LET s1 == linear_loop(SetNew(Local, 0, {}), 0, Np)
    IN  IF boundary_adjustment
        THEN SetAdd(SetAdd(s1, 0, Np - 1), Np - 1, 0)
        ELSE s1

linear_to_pairwise_neighborhood(Np, boundary_adjustment) ==
    IF Np = 1 THEN SetNew(Local, 0, {})
    ELSE LET s1 == linear_loop(SetNew(Local, 0, {}), 0, Np)
         IN  IF boundary_adjustment
             THEN SetAdd(SetAdd(s1, 0, Np - 1), Np - 1, 0)
             ELSE s1

\* "top": neighborhood[i].add(i-cols); neighborhood[i-cols].add(i)
RectTop(s, cols) == SetAdd(SetAdd(s, s.i, s.i - cols), s.i - cols, s.i)

\* the inner loop of a row: top, right, i += 1
RECURSIVE rect_inner_loop(_, _, _)
rect_inner_loop(s, cols, k) ==
    IF s.err # NoErr \/ k <= 0 THEN s
    ELSE rect_inner_loop(RightStep(RectTop(s, cols)), cols, k - 1)

\* for m in range(1, rows)
RECURSIVE rect_rows_loop(_, _, _, _)
rect_rows_loop(s, m, rows, cols) ==
    IF s.err # NoErr \/ m >= rows THEN s
    ELSE LET s1 == Inc(s)
             s2 == SetNew(s1, s1.i, {})
             s3 == rect_inner_loop(s2, cols, cols - 1)
         IN  rect_rows_loop(RectTop(s3, cols), m + 1, rows, cols)

\* for nid1, nid2 in zip(top_row_ids, bottom_row_ids), from column c on
RECURSIVE rect_top_bottom_loop(_, _, _, _)
rect_top_bottom_loop(s, c, rows, cols) ==
    IF s.err # NoErr \/ c >= cols THEN s
    ELSE LET nid1 == c
             nid2 == (rows - 1) * cols + c
         IN  rect_top_bottom_loop(SetAdd(SetAdd(s, nid1, nid2), nid2, nid1), c + 1, rows, cols)

\* for m in range(rows): connect sides
RECURSIVE rect_sides_loop(_, _, _, _)
rect_sides_loop(s, m, rows, cols) ==
    IF s.err # NoErr \/ m >= rows THEN s
    ELSE LET left_nid == m * cols
             right_nid == (m * cols) + (cols - 1)
         IN  rect_sides_loop(SetAdd(SetAdd(s, left_nid, right_nid), right_nid, left_nid),
                             m + 1, rows, cols)

\* a variant of the rectangular generator that wraps top to bottom only
rect2d_without_side_wrap(rows, cols, boundary_adjustment) ==
    LET s1 == first_row_loop(SetNew(Local, 0, {}), cols - 1)
        s2 == rect_rows_loop(s1, 1, rows, cols)
    IN  IF boundary_adjustment
        THEN rect_top_bottom_loop(s2, 0, rows, cols)
        ELSE s2

rect2d_to_pairwise_von_neumann_neighborhood(rows, cols, boundary_adjustment) ==
    LET s1 == first_row_loop(SetNew(Local, 0, {}), cols - 1)
        s2 == rect_rows_loop(s1, 1, rows, cols)
    IN  IF boundary_adjustment
        THEN rect_sides_loop(rect_top_bottom_loop(s2, 0, rows, cols), 0, rows, cols)
        ELSE s2

\* "top-left": neighborhood[i].add(i-off); neighborhood[i-off].add(i)
HexTopLeft(s, off) == SetAdd(SetAdd(s, s.i, s.i - off), s.i - off, s.i)

\* "top-right": neighborhood[i].add(i-off+1); neighborhood[i-off+1].add(i)
HexTopRight(s, off) == SetAdd(SetAdd(s, s.i, s.i - off + 1), s.i - off + 1, s.i)

\* for _ in range(start_pos, end_pos): top-left, top-right, right, i += 1
RECURSIVE hex_inner_loop(_, _, _)
hex_inner_loop(s, off, k) ==
    IF s.err # NoErr \/ k <= 0 THEN s
    ELSE hex_inner_loop(RightStep(HexTopRight(HexTopLeft(s, off), off)), off, k - 1)

\* the body of "for m in range(1, rows)" for one m
hex_row(s, m, cols) ==
    LET s1 == Inc(s)
        s2 == SetNew(s1, s1.i, {})
        top_left_offset == IF m % 2 = 1 THEN cols ELSE cols + 1
        s3 == IF m % 2 = 0 THEN RightStep(HexTopRight(s2, top_left_offset)) ELSE s2
        start_pos == IF m % 2 = 1 THEN 0 ELSE 1
        end_pos == cols - 1
        s4 == hex_inner_loop(s3, top_left_offset, RangeLen(start_pos, end_pos))
        s5 == HexTopLeft(s4, top_left_offset)
    IN  IF m % 2 = 0 THEN HexTopRight(s5, top_left_offset) ELSE s5

RECURSIVE hex_rows_loop(_, _, _, _)
hex_rows_loop(s, m, rows, cols) ==
    IF s.err # NoErr \/ m >= rows THEN s
    ELSE hex_rows_loop(hex_row(s, m, cols), m + 1, rows, cols)

\* a variant of the bottom-row lookup in which index -1 does not wrap
BottomRowId_no_wrap(k, rows, cols) == (rows - 1) * cols + k

\* bottom_row_ids[k] with Python's negative index: -1 is the last entry
BottomRowId(k, rows, cols) ==
    IF k < 0 THEN (rows - 1) * cols + (cols + k) ELSE (rows - 1) * cols + k

\* for i, nid in enumerate(top_row_ids): "Top to bottom", from index c on
RECURSIVE hex_top_bottom_loop(_, _, _, _)
hex_top_bottom_loop(s, c, rows, cols) ==
    IF s.err # NoErr \/ c >= cols THEN s
    ELSE LET nid == c
             top_left_nid == BottomRowId(c - 1, rows, cols)
             top_right_nid == BottomRowId(c, rows, cols)
             s1 == SetAdd(SetAdd(s, nid, top_left_nid), top_left_nid, nid)
             s2 == SetAdd(SetAdd(s1, nid, top_right_nid), top_right_nid, nid)
         IN  hex_top_bottom_loop(s2, c + 1, rows, cols)

\* for r in range(1, rows): sides and offsets
RECURSIVE hex_sides_loop(_, _, _, _)
hex_sides_loop(s, r, rows, cols) ==
    IF s.err # NoErr \/ r >= rows THEN s
    ELSE LET left_nid == r * cols
             right_nid == (r * cols) + (cols - 1)
             s1 == SetAdd(SetAdd(s, left_nid, right_nid), right_nid, left_nid)
             s2 == IF r % 2 = 1
                   THEN LET top_right_nid == (r - 1) * cols
                        IN  SetAdd(SetAdd(s1, right_nid, top_right_nid), top_right_nid, right_nid)
                   ELSE LET top_left_nid == left_nid - 1
                        IN  SetAdd(SetAdd(s1, left_nid, top_left_nid), top_left_nid, left_nid)
         IN  hex_sides_loop(s2, r + 1, rows, cols)

hex2d_to_pairwise_neighborhood(rows, cols, boundary_adjustment) ==
    LET s1 == first_row_loop(SetNew(Local, 0, {}), cols - 1)
        s2 == hex_rows_loop(s1, 1, rows, cols)
    IN  IF ~boundary_adjustment THEN s2
        ELSE IF rows % 2 # 0 THEN Raise(s2, "Exception")
        ELSE LET s3 == hex_top_bottom_loop(s2, 0, rows, cols)
                 s4 == SetAdd(SetAdd(s3, 0, cols - 1), cols - 1, 0)
             IN  hex_sides_loop(s4, 1, rows, cols)

\* ------------------------------------------------------------ instances
\* __init__(self, neighborhood={}, node_metadata={}, interaction_metadata={}):
\* args maps the parameters the caller passes to the dict objects passed; a
\* parameter left out is bound to the default object, which Python creates
\* once, when the def statement runs, and reuses on every call.
Fields == {"neighborhood", "node_metadata", "interaction_metadata"}

PairwiseNeighborhood(args) ==
    [f \in Fields |-> IF f \in DOMAIN args THEN args[f] ELSE DefaultObj]

NoArgs == [f \in {} |-> DefaultObj]

\* the dicts instance g refers to, as the methods see them
View(g) ==
    [n   |-> neighborhood[self[g].neighborhood],
     nm  |-> node_metadata[self[g].node_metadata],
     im  |-> interaction_metadata[self[g].interaction_metadata],
     err |-> NoErr,
     i   |-> 0]

AddOps == {"add_node", "add_node_metadata", "add_interaction", "add_interaction_metadata"}
RemoveOps == {"remove_interaction", "remove_node"}

\* the dicts are mutated in place: what a method did is what the heap holds
Store(g, r, op, a, b) ==
    /\ neighborhood' = [neighborhood EXCEPT ![self[g].neighborhood] = r.n]
    /\ node_metadata' = [node_metadata EXCEPT ![self[g].node_metadata] = r.nm]
    /\ interaction_metadata' =
           [interaction_metadata EXCEPT ![self[g].interaction_metadata] = r.im]
    /\ last' = [op |-> op, g |-> g, a |-> a, b |-> b, bd |-> FALSE, err |-> r.err]
    /\ onlyAdds' = (onlyAdds /\ last.op \notin RemoveOps)
    /\ calls' = calls + 1
    /\ UNCHANGED self

\* a generator returned r for instance g: PairwiseNeighborhood(neighborhood)
\* is built on the new dict, or nothing is built when the generator raised
Built(g, r, op, a, b, bd) ==
    /\ last' = [op |-> op, g |-> g, a |-> a, b |-> b, bd |-> bd, err |-> r.err]
    /\ IF r.err = NoErr
       THEN /\ neighborhood' = Put(neighborhood, g, r.n)
            /\ self' = Put(self, g, PairwiseNeighborhood([neighborhood |-> g]))
       ELSE UNCHANGED <<neighborhood, self>>
    /\ UNCHANGED <<node_metadata, interaction_metadata, onlyAdds, calls>>

Init ==
    /\ neighborhood = [o \in {DefaultObj} |-> EmptyDict]
    /\ node_metadata = [o \in {DefaultObj} |-> EmptyDict]
    /\ interaction_metadata = [o \in {DefaultObj} |-> EmptyDict]
    /\ self = [g \in {} |-> NoArgs]
    /\ last = [op |-> "none", g |-> 0, a |-> 0, b |-> 0, bd |-> FALSE, err |-> NoErr]
    /\ onlyAdds = TRUE
    /\ calls = 0

\* PairwiseNeighborhood()
Construct(g) ==
    /\ g \notin DOMAIN self
    /\ self' = Put(self, g, PairwiseNeighborhood(NoArgs))
    /\ last' = [op |-> "construct", g |-> g, a |-> 0, b |-> 0, bd |-> FALSE, err |-> NoErr]
    /\ UNCHANGED <<neighborhood, node_metadata, interaction_metadata, onlyAdds, calls>>

CallLinear(g, sizes) ==
    /\ g \notin DOMAIN self
    /\ \E Np \in sizes, bd \in BOOLEAN :
          Built(g, linear_to_pairwise_neighborhood(Np, bd), "linear", Np, 1, bd)

CallRect(g, dims) ==
    /\ g \notin DOMAIN self
    /\ \E d \in dims, bd \in BOOLEAN :
          Built(g, rect2d_to_pairwise_von_neumann_neighborhood(d[1], d[2], bd),
                "rect2d", d[1], d[2], bd)

CallHex(g, dims) ==
    /\ g \notin DOMAIN self
    /\ \E d \in dims, bd \in BOOLEAN :
          Built(g, hex2d_to_pairwise_neighborhood(d[1], d[2], bd), "hex2d", d[1], d[2], bd)

CanCall(g) == g \in DOMAIN self /\ calls < MaxCalls

CallAddNode(g) ==
    /\ CanCall(g)
    /\ \E nid \in Nodes, meta \in MetaArgs :
          Store(g, add_node(View(g), nid, meta), "add_node", nid, nid)

CallAddNodeMetadata(g) ==
    /\ CanCall(g)
    /\ \E nid \in Nodes, meta \in Metas :
          Store(g, add_node_metadata(View(g), nid, meta), "add_node_metadata", nid, nid)

CallAddInteraction(g) ==
    /\ CanCall(g)
    /\ \E nid1 \in Nodes, nid2 \in Nodes, meta \in MetaArgs :
          Store(g, add_interaction(View(g), nid1, nid2, meta), "add_interaction", nid1, nid2)

CallAddInteractionMetadata(g) ==
    /\ CanCall(g)
    /\ \E nid1 \in Nodes, nid2 \in Nodes, meta \in Metas :
          Store(g, add_interaction_metadata(View(g), nid1, nid2, meta),
                "add_interaction_metadata", nid1, nid2)

CallRemoveInteraction(g) ==
    /\ CanCall(g)
    /\ \E nid1 \in Nodes, nid2 \in Nodes :
          Store(g, remove_interaction(View(g), nid1, nid2), "remove_interaction", nid1, nid2)

CallRemoveNode(g) ==
    /\ CanCall(g)
    /\ \E nid \in Nodes :
          Store(g, remove_node(View(g), nid), "remove_node", nid, nid)

\* generator inputs whose grid has at most MaxNode + 1 cells: the graphs the
\* driver goes on to mutate
SmallSizes == 1 .. (MaxNode + 1)
SmallDims == {d \in SmallSizes \X SmallSizes : d[1] * d[2] <= MaxNode + 1}

\* generator inputs of the generator specification
GenSizes == 1 .. (MaxRows * MaxCols)
GenDims == (1 .. MaxRows) \X (1 .. MaxCols)

\* the driver's steps on instance g: build it, then mutate it
Driver(g) ==
    \/ Construct(g)
    \/ CallLinear(g, SmallSizes)
    \/ CallRect(g, SmallDims)
    \/ CallHex(g, SmallDims)
    \/ CallAddNode(g)
    \/ CallAddNodeMetadata(g)
    \/ CallAddInteraction(g)
    \/ CallAddInteractionMetadata(g)
    \/ CallRemoveInteraction(g)
    \/ CallRemoveNode(g)

\* one instance
Next == Driver(1)

Spec == Init /\ [][Next]_vars

\* two instances
NextTwo == \E g \in Graphs : Driver(g)

SpecTwo == Init /\ [][NextTwo]_vars

\* the generators alone, over the larger inputs
NextGen ==
    \/ CallLinear(1, GenSizes)
    \/ CallRect(1, GenDims)
    \/ CallHex(1, GenDims)

SpecGen == Init /\ [][NextGen]_vars

\* ------------------------------------------------------------ properties
\* what instance g shows through its three dicts
Seen(g) == [n |-> View(g).n, nm |-> View(g).nm, im |-> View(g).im]

\* the undirected edges of an adjacency dict ({a} is a self-loop)
Edges(n) == UNION {{{a, b} : b \in n[a]} : a \in DOMAIN n}

\* the adjacency dict on the given nodes whose undirected edges are E
AdjOf(nodes, E) == [a \in nodes |-> {b \in nodes : {a, b} \in E}]

IsGraphOp(op) == op \in AddOps \cup RemoveOps
IsGenerator(op) == op \in {"linear", "rect2d", "hex2d"}

\* C1: symmetry: in every reachable state of an instance, for every two
\* existing nodes a and b, b is in neighbors(a) iff a is in neighbors(b).
C1_Symmetry ==
    \A g \in DOMAIN self :
        \A a \in DOMAIN View(g).n, b \in DOMAIN View(g).n :
            (b \in get_neighbors(View(g), a)) <=> (a \in get_neighbors(View(g), b))

\* C2: removal cascades: after a successful remove_node(x) on a graph built
\* by add_* calls only, x is no key of the adjacency, is in no neighbor set,
\* has no node metadata and occurs in no interaction-metadata key.
C2_RemovalCascades ==
    (last.op = "remove_node" /\ last.err = NoErr /\ onlyAdds) =>
        LET s == View(last.g)
            x == last.a
        IN  /\ x \notin DOMAIN s.n
            /\ \A a \in DOMAIN s.n : x \notin s.n[a]
            /\ get_node_metadata(s, x) = None
            /\ \A k \in DOMAIN s.im : k[1] # x /\ k[2] # x

\* C3: errors are raised before any mutation: a call that fails (add_node
\* on an existing id; add_node_metadata, add_interaction_metadata,
\* remove_interaction or remove_node naming an absent node;
\* remove_interaction on a missing edge or with a = b) leaves the adjacency,
\* the node metadata and the interaction metadata as they were.
C3_ErrorsBeforeMutation ==
    [][
        ( /\ IsGraphOp(last'.op)
          /\ last'.err # NoErr
          /\ last'.op = "remove_node" => last'.a \notin DOMAIN View(last'.g).n )
        => UNCHANGED <<neighborhood, node_metadata, interaction_metadata>>
    ]_vars

\* the edges C4 lists for a rows x cols hexagonal grid without wrapping
HexClaimEdges(rows, cols) ==
    LET id(r, c) == r * cols + c
        R == 0 .. (rows - 1)
        K == 0 .. (cols - 1)
        off(r) == IF r % 2 = 1 THEN cols ELSE cols + 1
    IN  {{id(r, c), id(r, c) + 1} : r \in R, c \in 0 .. (cols - 2)}
        \cup {{id(r, c), id(r, c) - off(r)} :
                  r \in {x \in R : x >= 1 /\ x % 2 = 1}, c \in K}
        \cup {{id(r, c), id(r, c) - off(r)} :
                  r \in {x \in R : x >= 1 /\ x % 2 = 0}, c \in {y \in K : y - 1 >= 0}}
        \cup {{id(r, c), id(r, c) - off(r) + 1} :
                  r \in {x \in R : x >= 1 /\ x % 2 = 1}, c \in {y \in K : y + 1 <= cols - 1}}
        \cup {{id(r, c), id(r, c) - off(r) + 1} :
                  r \in {x \in R : x >= 1 /\ x % 2 = 0}, c \in K}

\* C4: the hexagonal generator without boundary adjustment returns, for all
\* rows >= 1 and cols >= 1, exactly the nodes 0 .. rows*cols-1 and exactly
\* the row edges (id, id+1) and the in-range top-left / top-right edges.
C4_HexNoBoundary ==
    (last.op = "hex2d" /\ ~last.bd) =>
        /\ last.err = NoErr
        /\ View(last.g).n =
               AdjOf(0 .. (last.a * last.b - 1), HexClaimEdges(last.a, last.b))

\* the neighbours C5 gives node (r, c) of the rows x cols hexagonal torus
TorusUp(r, c, rows, cols) ==
    LET up == ((r - 1 + rows) % rows) * cols
    IN  IF r % 2 = 1
        THEN {up + c, up + ((c + 1) % cols)}
        ELSE {up + ((c - 1 + cols) % cols), up + c}

TorusNeighbors(x, rows, cols) ==
    LET r == x \div cols
        c == x % cols
        down == (r + 1) % rows
    IN  {r * cols + ((c - 1 + cols) % cols), r * cols + ((c + 1) % cols)}
        \cup TorusUp(r, c, rows, cols)
        \cup {down * cols + k : k \in {j \in 0 .. (cols - 1) :
                                           x \in TorusUp(down, j, rows, cols)}}

\* C5: for even rows >= 4 and cols >= 3 the hexagonal generator with
\* boundary adjustment returns the hexagonal torus on 0 .. rows*cols-1:
\* every node has exactly its two row neighbours, its two upward and its
\* two downward neighbours, six distinct nodes, none of them itself.
C5_HexTorus ==
    (last.op = "hex2d" /\ last.bd /\ last.a % 2 = 0 /\ last.a >= 4 /\ last.b >= 3) =>
        /\ last.err = NoErr
        /\ DOMAIN View(last.g).n = 0 .. (last.a * last.b - 1)
        /\ \A x \in DOMAIN View(last.g).n :
              /\ get_neighbors(View(last.g), x) = TorusNeighbors(x, last.a, last.b)
              /\ Cardinality(get_neighbors(View(last.g), x)) = 6
              /\ x \notin get_neighbors(View(last.g), x)

C5_Witness ==
    /\ last.op = "hex2d" /\ last.bd /\ last.err = NoErr
    /\ last.a = 4 /\ last.b = 3
    /\ get_neighbors(View(last.g), 0) = {1, 2, 3, 5, 9, 11}

\* C6 as stated: the linear generator returns N nodes; N-1 edges without
\* boundary adjustment; N edges with it for every N > 1; 0 edges for N = 1.
C6_LinearCounts ==
    (last.op = "linear" /\ last.err = NoErr) =>
        LET n == View(last.g).n
            N == last.a
        IN  /\ Cardinality(DOMAIN n) = N
            /\ ~last.bd => Cardinality(Edges(n)) = N - 1
            /\ (last.bd /\ N > 1) => Cardinality(Edges(n)) = N
            /\ N = 1 => Cardinality(Edges(n)) = 0

\* C6 amended: the linear generator returns N nodes; N-1 edges without
\* boundary adjustment; with it, N edges for every N > 2 and 1 edge for
\* N = 2 (the wrap edge is the edge 0-1 again); 0 edges for N = 1.
C6_LinearCountsAmended ==
    (last.op = "linear") =>
        LET n == View(last.g).n
            N == last.a
        IN  /\ last.err = NoErr
            /\ Cardinality(DOMAIN n) = N
            /\ ~last.bd => Cardinality(Edges(n)) = N - 1
            /\ (last.bd /\ N > 2) => Cardinality(Edges(n)) = N
            /\ (last.bd /\ N = 2) => Cardinality(Edges(n)) = 1
            /\ N = 1 => Cardinality(Edges(n)) = 0

C6_Witness ==
    /\ last.op = "linear" /\ last.bd /\ last.err = NoErr /\ last.a = 2
    /\ View(last.g).n = (0 :> {1}) @@ (1 :> {0})

\* C7 as stated: the rectangular generator returns a graph on 0 .. r*c-1
\* with r*(c-1) + c*(r-1) edges without boundary adjustment and r*c*2
\* edges with it, for all r >= 1 and c >= 1.
C7_RectEdgeCount ==
    (last.op = "rect2d" /\ last.err = NoErr) =>
        LET n == View(last.g).n
            r == last.a
            c == last.b
        IN  /\ DOMAIN n = 0 .. (r * c - 1)
            /\ ~last.bd => Cardinality(Edges(n)) = r * (c - 1) + c * (r - 1)
            /\ last.bd => Cardinality(Edges(n)) = r * c * 2

\* C7 amended: as stated without boundary adjustment; with it, r*c*2 edges
\* for all r >= 3 and c >= 3.
C7_RectEdgeCountAmended ==
    (last.op = "rect2d") =>
        LET n == View(last.g).n
            r == last.a
            c == last.b
        IN  /\ last.err = NoErr
            /\ DOMAIN n = 0 .. (r * c - 1)
            /\ ~last.bd => Cardinality(Edges(n)) = r * (c - 1) + c * (r - 1)
            /\ (last.bd /\ r >= 3 /\ c >= 3) => Cardinality(Edges(n)) = r * c * 2

C7_Witness ==
    /\ last.op = "rect2d" /\ last.bd /\ last.err = NoErr
    /\ last.a = 3 /\ last.b = 3
    /\ Cardinality(Edges(View(last.g).n)) = 18

\* C8: no generator produces a self-loop: in every graph a generator
\* returns, with either boundary flag, no node is in its own neighbor set.
C8_NoSelfLoop ==
    (IsGenerator(last.op) /\ last.err = NoErr) =>
        \A a \in DOMAIN View(last.g).n : a \notin get_neighbors(View(last.g), a)

\* C9: metadata mirroring: in every reachable state, interaction_metadata
\* has an entry for (a, b) iff it has one for (b, a), with the same value.
C9_MetadataMirroring ==
    \A g \in DOMAIN self :
        LET s == View(g)
        IN  \A a \in Nodes, b \in Nodes :
                /\ (<<a, b>> \in DOMAIN s.im) <=> (<<b, a>> \in DOMAIN s.im)
                /\ get_interaction_metadata(s, a, b) = get_interaction_metadata(s, b, a)

C9_Witness ==
    /\ last.op = "add_interaction_metadata" /\ last.err = NoErr
    /\ last.a # last.b
    /\ get_interaction_metadata(View(last.g), last.a, last.b) = "m2"
    /\ get_interaction_metadata(View(last.g), last.b, last.a) = "m2"
    /\ last.b \in get_neighbors(View(last.g), last.a)

\* C10: instances are isolated: a call on one instance leaves what every
\* other instance shows unchanged, and a graph just returned by a
\* generator has no node metadata and no interaction metadata.
C10_Isolation ==
    [][
        /\ IsGraphOp(last'.op) =>
               \A h \in DOMAIN self : h # last'.g => Seen(h)' = Seen(h)
        /\ (IsGenerator(last'.op) /\ last'.err = NoErr) =>
               \A h \in Graphs \ DOMAIN self : h = last'.g =>
                   /\ Seen(h)'.nm = EmptyDict
                   /\ Seen(h)'.im = EmptyDict
    ]_vars

====
